---- MODULE Spec2Model ----
\* A model of the Serialized provider (src/providers/serialized.rs): the
\* descriptor (value, key, profile, loc), its constructors and builder
\* methods, the path expansion value_from, and Provider::data.
EXTENDS Integers, Sequences, FiniteSets, TLC

VARIABLES
    desc,     \* the Serialized<T> descriptor: value, key, profile, loc
    hist,     \* what the calls made so far say the descriptor should hold
    result,   \* the return value of the last data() call on this descriptor
    prev      \* the return value of the data() call before that one

vars == <<desc, hist, result, prev>>

\* ---------------------------------------------------------------------
\* Bounds

\* Most segments (the pieces between dots) in a key string handed to
\* key(), default() or global().
MaxSegments == 3

\* ---------------------------------------------------------------------
\* Strings are sequences of characters, so that split('.') is computed.
\* A key string is any choice of segments, some possibly empty, joined
\* by dots: "", "a", ".", "a.b", "a..b", ".a", "a.a.b", ...

SegmentChoices == {<<>>, <<"a">>, <<"b">>}

RECURSIVE SegmentLists(_)
SegmentLists(n) ==
    IF n = 0 THEN {<<>>}
    ELSE {Append(l, g) : l \in SegmentLists(n - 1), g \in SegmentChoices}

RECURSIVE Join(_)
Join(segs) ==
    IF Len(segs) = 1 THEN segs[1]
    ELSE segs[1] \o <<".">> \o Join(Tail(segs))

KeyStrings == {Join(l) : l \in UNION {SegmentLists(n) : n \in 1..MaxSegments}}

\* ---------------------------------------------------------------------
\* crate::value::Value: a tagged tree. items holds the entries of a dict
\* (in order) or the elements of an array (under the empty key).

Scalar(kind, text) == [kind |-> kind, scalar |-> text, items |-> <<>>]

Entry(k, v) == [k |-> k, v |-> v]

ArrayValue(elems) ==
    [kind |-> "array", scalar |-> "",
     items |-> [i \in 1..Len(elems) |-> Entry(<<>>, elems[i])]]

\* Dict::new()
DictNew == <<>>

\* Dict::insert on a dictionary that does not hold k yet
DictInsert(dict, k, v) == Append(dict, Entry(k, v))

\* impl From<Dict> for Value (dict.into())
DictValue(dict) == [kind |-> "map", scalar |-> "", items |-> dict]

\* Value::into_dict: Some(dict) for a dictionary, None for anything else
into_dict(value) ==
    IF value.kind = "map" THEN [some |-> TRUE, val |-> value.items]
    ELSE [some |-> FALSE, val |-> <<>>]

\* Value::to_actual: the kind of the value, as reported in errors
to_actual(value) == value.kind

\* ---------------------------------------------------------------------
\* The held values (type T) and their serialization.

TValues ==
    {"unit", "bool_true", "i32_42", "f64_1_5", "str_hello", "vec_123",
     "map_numbers", "struct_ba", "empty_map", "bad_poisoned", "bad_custom"}

Vec123 == ArrayValue(<<Scalar("i64", "1"), Scalar("i64", "2"), Scalar("i64", "3")>>)

\* Value::serialize(&self.value): Ok(value) or Err(cause)
SerOk(value) == [ok |-> TRUE, value |-> value, err |-> ""]

SerErr(cause) == [ok |-> FALSE, value |-> Scalar("unit", ""), err |-> cause]

Serialize(t) ==
    CASE t = "unit"         -> SerOk(Scalar("unit", ""))
      [] t = "bool_true"    -> SerOk(Scalar("bool", "true"))
      [] t = "i32_42"       -> SerOk(Scalar("i64", "42"))
      [] t = "f64_1_5"      -> SerOk(Scalar("f64", "1.5"))
      [] t = "str_hello"    -> SerOk(Scalar("string", "hello"))
      [] t = "vec_123"      -> SerOk(Vec123)
      [] t = "map_numbers"  ->
            SerOk(DictValue(<<Entry(<<"n", "u", "m", "b", "e", "r", "s">>, Vec123)>>))
      [] t = "struct_ba"    ->
            SerOk(DictValue(<<Entry(<<"b">>, Scalar("i64", "1")),
                              Entry(<<"a">>, Scalar("string", "x"))>>))
      [] t = "empty_map"    -> SerOk(DictValue(DictNew))
      [] t = "bad_poisoned" -> SerErr("lock poisoned")
      [] t = "bad_custom"   -> SerErr("custom failure")

\* ---------------------------------------------------------------------
\* Profiles, locations, results

ProfileNames == {"default", "global", "debug"}

\* profile.into()
ProfileFrom(name) == [name |-> name]

\* Profile::Default, Profile::Global
ProfileDefault == ProfileFrom("default")

ProfileGlobal == ProfileFrom("global")

\* Profile::collect: the one-entry map from this profile to the dictionary
collect(profile, dict) == profile :> dict

\* Location::caller(): the call sites a constructor may be called from
Locations == {"main.rs:10", "lib.rs:20"}

NoMap == <<>>

NoError == [kind |-> "none", actual |-> "", expected |-> "", msg |-> ""]

\* Kind::InvalidType(actual, expected)
InvalidType(actual, expected) ==
    [kind |-> "InvalidType", actual |-> actual, expected |-> expected, msg |-> ""]

\* the serialization failure, carried through `?`
SerializationError(cause) ==
    [kind |-> "Message", actual |-> "", expected |-> "", msg |-> cause]

Ok(map) == [tag |-> "ok", map |-> map, err |-> NoError]

Err(error) == [tag |-> "err", map |-> NoMap, err |-> error]

NoResult == [tag |-> "none", map |-> NoMap, err |-> NoError]

\* Option<String>
None == [some |-> FALSE, str |-> <<>>]

Some(s) == [some |-> TRUE, str |-> s]

\* ---------------------------------------------------------------------
\* str::split('.'): the segments between dots, empty ones included; the
\* empty string splits into one empty segment.

RECURSIVE SplitAcc(_, _, _)
SplitAcc(s, cur, acc) ==
    IF s = <<>> THEN Append(acc, cur)
    ELSE IF Head(s) = "." THEN SplitAcc(Tail(s), <<>>, Append(acc, cur))
    ELSE SplitAcc(Tail(s), Append(cur, Head(s)), acc)

split(s) == SplitAcc(s, <<>>, <<>>)

\* ---------------------------------------------------------------------
\* Constructors and builder methods

from(value, profile, loc) ==
    [value |-> value, key |-> None, profile |-> ProfileFrom(profile), loc |-> loc]

profile_clears_key(self, p) ==
    [self EXCEPT !.profile = ProfileFrom(p), !.key = None]

profile(self, p) == [self EXCEPT !.profile = ProfileFrom(p)]

key(self, k) == [self EXCEPT !.key = Some(k)]

defaults(value, loc) == from(value, ProfileDefault.name, loc)

globals(value, loc) == from(value, ProfileGlobal.name, loc)

default(k, value, loc) == key(from(value, ProfileDefault.name, loc), k)

global(k, value, loc) == key(from(value, ProfileGlobal.name, loc), k)

\* ---------------------------------------------------------------------
\* value_from: wrap the value under the segments of the key

RECURSIVE value_from_no_recursion(_, _)
value_from_no_recursion(keys, value) ==
    IF keys # <<>> /\ Head(keys) # <<>>
    THEN DictValue(DictInsert(DictNew, Head(keys), value))
    ELSE value

RECURSIVE value_from_keeps_empty(_, _)
value_from_keeps_empty(keys, value) ==
    IF keys # <<>>
    THEN DictValue(DictInsert(DictNew, Head(keys),
                              value_from_keeps_empty(Tail(keys), value)))
    ELSE value

RECURSIVE value_from(_, _)
value_from(keys, value) ==
    IF keys # <<>> /\ Head(keys) # <<>>
    THEN DictValue(DictInsert(DictNew, Head(keys), value_from(Tail(keys), value)))
    ELSE value

\* ---------------------------------------------------------------------
\* Provider::data. Returns the descriptor as the call leaves it (self)
\* and the value returned (ret).

Wrapped(self, value) ==
    IF self.key.some THEN value_from(split(self.key.str), value) ELSE value

data_swapped_error(self) ==
    LET ser == Serialize(self.value) IN
    IF ~ser.ok THEN [self |-> self, ret |-> Err(SerializationError(ser.err))]
    ELSE LET error == InvalidType("map", to_actual(ser.value))
             dict == into_dict(Wrapped(self, ser.value))
         IN IF dict.some
            THEN [self |-> self, ret |-> Ok(collect(self.profile, dict.val))]
            ELSE [self |-> self, ret |-> Err(error)]

data_unwrap_or_default(self) ==
    LET ser == Serialize(self.value) IN
    IF ~ser.ok THEN [self |-> self, ret |-> Err(SerializationError(ser.err))]
    ELSE LET dict == into_dict(Wrapped(self, ser.value))
         IN [self |-> self, ret |-> Ok(collect(self.profile, dict.val))]

data_default_profile(self) ==
    LET ser == Serialize(self.value) IN
    IF ~ser.ok THEN [self |-> self, ret |-> Err(SerializationError(ser.err))]
    ELSE LET error == InvalidType(to_actual(ser.value), "map")
             dict == into_dict(Wrapped(self, ser.value))
         IN IF dict.some
            THEN [self |-> self, ret |-> Ok(collect(ProfileDefault, dict.val))]
            ELSE [self |-> self, ret |-> Err(error)]

data_ser_error_as_mismatch(self) ==
    LET ser == Serialize(self.value) IN
    LET error == InvalidType(to_actual(ser.value), "map")
        dict == into_dict(Wrapped(self, ser.value))
    IN IF ser.ok /\ dict.some
       THEN [self |-> self, ret |-> Ok(collect(self.profile, dict.val))]
       ELSE [self |-> self, ret |-> Err(error)]

data_takes_key(self) ==
    LET ser == Serialize(self.value) IN
    IF ~ser.ok THEN [self |-> self, ret |-> Err(SerializationError(ser.err))]
    ELSE LET error == InvalidType(to_actual(ser.value), "map")
             dict == into_dict(Wrapped(self, ser.value))
             after == [self EXCEPT !.key = None]
         IN IF dict.some
            THEN [self |-> after, ret |-> Ok(collect(self.profile, dict.val))]
            ELSE [self |-> after, ret |-> Err(error)]

data(self) ==
    LET ser == Serialize(self.value) IN
    IF ~ser.ok THEN [self |-> self, ret |-> Err(SerializationError(ser.err))]
    ELSE LET error == InvalidType(to_actual(ser.value), "map")
             dict == into_dict(Wrapped(self, ser.value))
         IN IF dict.some
            THEN [self |-> self, ret |-> Ok(collect(self.profile, dict.val))]
            ELSE [self |-> self, ret |-> Err(error)]

\* ---------------------------------------------------------------------
\* The state machine: a descriptor is constructed, rebuilt with
\* profile()/key(), and asked for its data.

\* what a construction records: the value and call site given, and the
\* profile and key the constructor was given
Constructed(value, p, k, loc) ==
    [value |-> value, loc |-> loc, profile |-> ProfileFrom(p), key |-> k,
     profileCalled |-> FALSE, keyCalled |-> FALSE]

Init ==
    /\ result = NoResult
    /\ prev = NoResult
    /\ \E v \in TValues, l \in Locations :
          \/ \E p \in ProfileNames :
                /\ desc = from(v, p, l)
                /\ hist = Constructed(v, p, None, l)
          \/ /\ desc = defaults(v, l)
             /\ hist = Constructed(v, "default", None, l)
          \/ /\ desc = globals(v, l)
             /\ hist = Constructed(v, "global", None, l)
          \/ \E k \in KeyStrings :
                /\ desc = default(k, v, l)
                /\ hist = Constructed(v, "default", Some(k), l)
          \/ \E k \in KeyStrings :
                /\ desc = global(k, v, l)
                /\ hist = Constructed(v, "global", Some(k), l)

ProfileAct ==
    \E p \in ProfileNames :
        /\ desc' = profile(desc, p)
        /\ hist' = [hist EXCEPT !.profile = ProfileFrom(p), !.profileCalled = TRUE]
        /\ result' = NoResult
        /\ prev' = NoResult

KeyAct ==
    \E k \in KeyStrings :
        /\ desc' = key(desc, k)
        /\ hist' = [hist EXCEPT !.key = Some(k), !.keyCalled = TRUE]
        /\ result' = NoResult
        /\ prev' = NoResult

DataAct ==
    /\ desc' = data(desc).self
    /\ result' = data(desc).ret
    /\ prev' = result
    /\ UNCHANGED hist

Next ==
    \/ ProfileAct
    \/ KeyAct
    \/ DataAct

Spec == Init /\ [][Next]_vars

\* ---------------------------------------------------------------------
\* Vocabulary of the properties

\* data() has been called on the descriptor as it stands
Called == result.tag # "none"

\* the serialization of the held value, and the value it yields
Ser == Serialize(desc.value)

V == Ser.value

\* the segments of the key path
Segs == split(desc.key.str)

NonEmptySegs == SelectSeq(Segs, LAMBDA g : g # <<>>)

AllNonEmpty == \A i \in DOMAIN Segs : Segs[i] # <<>>

AllEmpty == \A i \in DOMAIN Segs : Segs[i] = <<>>

\* val is leaf nested under segs: one dictionary level per segment, each
\* with exactly one entry, the first segment outermost
RECURSIVE NestedUnder(_, _, _)
NestedUnder(val, segs, leaf) ==
    IF segs = <<>> THEN val = leaf
    ELSE /\ val.kind = "map"
         /\ Len(val.items) = 1
         /\ val.items[1].k = Head(segs)
         /\ NestedUnder(val.items[1].v, Tail(segs), leaf)

\* the result is the mapping with the single entry profile -> dict
IsMapping(r, p, dict) ==
    /\ r.tag = "ok"
    /\ r.err = NoError
    /\ DOMAIN r.map = {p}
    /\ r.map[p] = dict

\* the result is the error TypeMismatch(actual, expected), with no data
IsTypeMismatch(r, actual, expected) ==
    /\ r.tag = "err"
    /\ r.map = NoMap
    /\ r.err.kind = "InvalidType"
    /\ r.err.actual = actual
    /\ r.err.expected = expected

\* the result is the serialization failure with the given cause, with no data
IsSerializationError(r, cause) ==
    /\ r.tag = "err"
    /\ r.map = NoMap
    /\ r.err.kind = "Message"
    /\ r.err.msg = cause

\* what data() returns when no key path is set
UnkeyedOutcome(r) ==
    IF ~Ser.ok THEN IsSerializationError(r, Ser.err)
    ELSE IF V.kind = "map" THEN IsMapping(r, desc.profile, V.items)
    ELSE IsTypeMismatch(r, V.kind, "map")

Str_a_a_b == <<"a", ".", "a", ".", "b">>

\* ---------------------------------------------------------------------
\* C1: with no key path and a value that serializes to a dictionary D,
\* data() returns exactly the one-entry mapping {profile: D}, D with the
\* same entries in the same order.
C1_UnkeyedDictEmitted ==
    (Called /\ ~desc.key.some /\ Ser.ok /\ V.kind = "map")
        => IsMapping(result, desc.profile, V.items)

C1_Witness ==
    /\ Called
    /\ ~desc.key.some
    /\ desc.value = "struct_ba"
    /\ desc.profile = ProfileFrom("debug")
    /\ result.tag = "ok"
    /\ Len(result.map[desc.profile]) = 2

\* C2: with a key path of n >= 1 segments, all non-empty, and any value V,
\* data() returns {profile: {s1: {s2: ... {sn: V}}}}: n levels of
\* one-entry dictionaries, first segment outermost, last one mapping to V.
C2_KeyedNesting ==
    (Called /\ desc.key.some /\ AllNonEmpty /\ Ser.ok)
        => /\ result.tag = "ok"
           /\ result.err = NoError
           /\ DOMAIN result.map = {desc.profile}
           /\ NestedUnder(DictValue(result.map[desc.profile]), Segs, V)

C2_Witness ==
    /\ Called
    /\ desc.key = Some(Str_a_a_b)
    /\ desc.value = "i32_42"
    /\ desc.profile = ProfileGlobal
    /\ result.tag = "ok"

\* C3: with a key path that has empty segments (and at least one non-empty
\* one), data() returns the value nested under exactly the non-empty
\* segments, in order: "a..b" gives {profile: {a: {b: V}}}.
C3_EmptySegmentsSkipped ==
    (Called /\ desc.key.some /\ ~AllNonEmpty /\ ~AllEmpty /\ Ser.ok)
        => /\ result.tag = "ok"
           /\ DOMAIN result.map = {desc.profile}
           /\ NestedUnder(DictValue(result.map[desc.profile]), NonEmptySegs, V)

\* C4: with no key path and a value that serializes to a non-dictionary,
\* data() returns TypeMismatch(kind of the value, "map") and no mapping.
C4_UnkeyedNonDictRejected ==
    (Called /\ ~desc.key.some /\ Ser.ok /\ V.kind # "map")
        => IsTypeMismatch(result, V.kind, "map")

C4_Witness ==
    /\ Called
    /\ ~desc.key.some
    /\ desc.value = "vec_123"
    /\ result.tag = "err"
    /\ result.err.actual = "array"

\* C5: whenever the key path has at least one non-empty segment, at any
\* position, and serialization succeeds, data() succeeds (no TypeMismatch).
C5_AnyNonEmptySegmentSucceeds ==
    (Called /\ desc.key.some /\ ~AllEmpty /\ Ser.ok) => result.tag = "ok"

\* C6: a key path that is empty or made of dots only behaves exactly as no
\* key path: {profile: D} for a dictionary D, TypeMismatch(kind, "map")
\* otherwise, never an error of its own.
C6_DegenerateKeyIsUnkeyed ==
    (Called /\ desc.key.some /\ AllEmpty)
        => /\ UnkeyedOutcome(result)
           /\ result = data([desc EXCEPT !.key = None]).ret

C6_Witness ==
    /\ Called
    /\ desc.key = Some(<<".", ".">>)
    /\ desc.value = "i32_42"
    /\ result.tag = "err"
    /\ result.err.kind = "InvalidType"

\* C7: after any sequence of profile() and key() calls the descriptor holds
\* the value and location given at construction, the profile of the last
\* profile() call (or the constructor's) and the key of the last key() call
\* (or the constructor's, or none).
C7_BuildersChangeOneField ==
    desc = [value |-> hist.value, key |-> hist.key,
            profile |-> hist.profile, loc |-> hist.loc]

C7_Witness ==
    /\ hist.profileCalled
    /\ hist.keyCalled
    /\ desc.profile = ProfileFrom("debug")
    /\ desc.key = Some(<<"b">>)
    /\ desc.value = "map_numbers"

\* C8: data() leaves the descriptor unchanged, and two data() calls on the
\* same unmodified descriptor return equal results.
C8_DataPureAndRepeatable ==
    /\ [][result'.tag # "none" => desc' = desc]_vars
    /\ [](prev.tag # "none" => prev = result)

C8_Witness ==
    /\ prev.tag = "ok"
    /\ result.tag = "ok"
    /\ desc.key = Some(<<"a", ".", "b">>)
    /\ desc.value = "str_hello"

\* C9: data() returns the serialization error unchanged when serialization
\* fails, whatever the key path; otherwise either a TypeMismatch with no
\* data or a mapping with exactly one entry, keyed by the current profile.
C9_NoPartialData ==
    Called =>
        IF ~Ser.ok THEN IsSerializationError(result, Ser.err)
        ELSE \/ /\ result.tag = "err"
                /\ result.err.kind = "InvalidType"
                /\ result.map = NoMap
             \/ /\ result.tag = "ok"
                /\ result.err = NoError
                /\ DOMAIN result.map = {desc.profile}

C9_Witness ==
    /\ Called
    /\ desc.value = "bad_custom"
    /\ desc.key = Some(<<"a">>)
    /\ result.err.msg = "custom failure"

\* C10: whenever data() returns TypeMismatch, the kind it reports is the
\* kind of the value that failed the dictionary check, that is, of the
\* value after path wrapping.
C10_MismatchReportsRejectedValue ==
    (Called /\ result.tag = "err" /\ result.err.kind = "InvalidType")
        => /\ ~into_dict(Wrapped(desc, V)).some
           /\ result.err.actual = to_actual(Wrapped(desc, V))

C10_Witness ==
    /\ Called
    /\ desc.key = Some(<<".", "a">>)
    /\ desc.value = "str_hello"
    /\ result.tag = "err"
    /\ result.err.kind = "InvalidType"

====
